---- MODULE Spec2Model ----
(***************************************************************************)
(* A model of the fix_fn! macro (src/src/lib.rs).                           *)
(*                                                                         *)
(* The macro has four rules, tried in order by the macro expander.  The    *)
(* first rule expands a closure definition into a block that builds one    *)
(* HideFnImpl instance around the closure and returns a `move` closure     *)
(* forwarding to it; the other three rules expand to compile_error!.       *)
(*                                                                         *)
(* The phases of a run:                                                     *)
(*   "source"   an invocation fix_fn!(input) has been written;             *)
(*   "matched"  the expander has tried the rules on the input;             *)
(*   "defined"  the expanded block has been evaluated (the instance is     *)
(*              built, outer values are captured);                         *)
(*   "running"  the returned closure has been called and the call chain    *)
(*              closure -> HideFnImpl::call -> underlying closure ->       *)
(*              adapter -> HideFnImpl::call -> ... is in progress;         *)
(*   "returned" that call has returned (one call is followed per run).     *)
(***************************************************************************)
EXTENDS Integers, Sequences, FiniteSets, TLC

VARIABLES
    input,      \* the tokens handed to fix_fn!, as a record (see Inputs)
    pc,         \* "source" | "matched" | "defined" | "running" | "returned"
    outcome,    \* which rule took the input (see Outcomes), "pending" before
    diag,       \* the compile_error! message, "" when there is none
    expansion,  \* <<>> or <<e>>: the first rule's transcription
    env,        \* ownership of the values of the defining scope
    instances,  \* number of HideFnImpl values constructed
    stack,      \* the call stack of the running call chain
    callArgs,   \* arguments the returned closure was called with
    result      \* <<>> or <<v>>: what that call returned

vars == <<input, pc, outcome, diag, expansion, env, instances, stack, callArgs, result>>

----------------------------------------------------------------------------
(* Bounds of the model. *)

\* Longest parameter list (self-parameter included) an input may have.
MaxParams == 3
\* Largest u32 argument value the returned closure is called with.
MaxArg == 7

----------------------------------------------------------------------------
(* The inputs: what may stand between fix_fn!( and ).                       *)

\* A parameter without `: T`.
NoType == "none"
\* An input without `-> R`, or without a leading marker.
NoToken == "none"

Types == {"u32", "bool"}
SelfNames == {"fib", "sub"}
ArgNames == <<"i", "j", "k", "l", "m">>

\* The leading marker: absent, the keyword `move`, or some other identifier.
Markers == {NoToken, "move", "mv"}

\* Bodies.  "fib" is the doc test's block
\*   { if i <= 1 { i } else { fib(i - 1) + fib(i - 2) } }
\* "sub" is a block over two parameters, not symmetric in them,
\*   { if j == 0 { i } else if i == 0 { 0 } else { sub(i - 1, j - 1) } }
\* "lit" is the block { 7 }; "expr" is an expression that is not a block.
BlockBodies == {"fib", "sub", "lit"}
Bodies == BlockBodies \cup {"expr"}

\* Values of the defining scope: "v" has a type that is not Copy (a Vec),
\* "n" has a Copy type (a u32).  An input's `uses` are those its body reads
\* (through a shared reference, as in `let _ = v.len() + n;`) besides what
\* is written out above; they do not change the body's value.
OuterVars == {"v", "n"}
IsCopy(x) == x = "n"

ParamListsOfLen(n) ==
    { [k \in 1..n |-> [name |-> IF k = 1 THEN s ELSE ArgNames[k - 1], ty |-> t[k]]] :
        s \in SelfNames, t \in [1..n -> Types \cup {NoType}] }

ParamLists == UNION { ParamListsOfLen(n) : n \in 0..MaxParams }

\* glued: the two bars of an empty parameter list written `||`.  The lexer
\* joins adjacent punctuation into one token before the macro is expanded, so
\* the expander sees the single token `||`, which is not the token `|`;
\* `| |` and `|,|` are two `|` tokens.
Inputs ==
    { [mov |-> m, params |-> p, comma |-> c, glued |-> g, ret |-> r, body |-> b, uses |-> u] :
        m \in Markers, p \in ParamLists, c \in BOOLEAN, g \in BOOLEAN,
        r \in Types \cup {NoToken}, b \in Bodies, u \in SUBSET OuterVars }

WellFormedInput(in) == in.glued => (in.params = <<>> /\ ~in.comma)

----------------------------------------------------------------------------
(* The four rules' patterns. *)

\* $($mov:ident)? : nothing, or one identifier (keywords are identifiers to
\* the ident fragment, so `move` matches, and so does any other word).
MarkerMatches(in) == in.mov \in {NoToken, "move", "mv"}

\* Every pattern spells its bars as two `|` tokens; a `||` token is neither.
BarsMatch(in) == ~in.glued

\* $body:block needs a `{`; $body:expr takes a block or any other expression
\* but cannot start at `->`.
BodyIsBlock(in) == in.body \in BlockBodies

HasRet(in) == in.ret # NoToken
Annotated(p) == p.ty # NoType

AdditionalAllAnnotated(in) == \A k \in 2..Len(in.params) : Annotated(in.params[k])

\* First rule with the annotation requirement on additional parameters lost.
Rule1MatchesLax(in) ==
    /\ MarkerMatches(in) /\ BarsMatch(in)
    /\ Len(in.params) >= 1
    /\ ~Annotated(in.params[1])
    /\ HasRet(in)
    /\ BodyIsBlock(in)

\* $($mov:ident)? |$self_arg:ident $(, $arg_name:ident : $arg_type:ty)* $(,)? |
\*     -> $ret_type:ty $body:block
Rule1Matches(in) ==
    /\ MarkerMatches(in) /\ BarsMatch(in)
    /\ Len(in.params) >= 1
    /\ ~Annotated(in.params[1])
    /\ AdditionalAllAnnotated(in)
    /\ HasRet(in)
    /\ BodyIsBlock(in)

\* $($mov:ident)? |$($arg_name:ident $(: $arg_type:ty)?),* $(,)?| $body:expr
Rule2Matches(in) ==
    /\ MarkerMatches(in) /\ BarsMatch(in)
    /\ ~HasRet(in)

\* Third rule with the additional parameters required to be annotated.
Rule3MatchesStrict(in) ==
    /\ MarkerMatches(in) /\ BarsMatch(in)
    /\ Len(in.params) >= 1
    /\ Annotated(in.params[1])
    /\ AdditionalAllAnnotated(in)
    /\ HasRet(in)
    /\ BodyIsBlock(in)

\* $($mov:ident)? |$self_arg:ident : $self_type:ty
\*     $(, $arg_name:ident $(: $arg_type:ty)?)* $(,)? | -> $ret_type:ty $body:block
Rule3Matches(in) ==
    /\ MarkerMatches(in) /\ BarsMatch(in)
    /\ Len(in.params) >= 1
    /\ Annotated(in.params[1])
    /\ HasRet(in)
    /\ BodyIsBlock(in)

\* $($mov:ident)? |$self_arg:ident $(, $arg_name:ident $(: $arg_type:ty)?)* $(,)? |
\*     -> $ret_type:ty $body:block
Rule4Matches(in) ==
    /\ MarkerMatches(in) /\ BarsMatch(in)
    /\ Len(in.params) >= 1
    /\ ~Annotated(in.params[1])
    /\ HasRet(in)
    /\ BodyIsBlock(in)

\* Rule order with the fourth rule tried before the first.
FirstRuleFourthFirst(in) ==
    IF Rule4Matches(in) THEN 4
    ELSE IF Rule1Matches(in) THEN 1
    ELSE IF Rule2Matches(in) THEN 2
    ELSE IF Rule3Matches(in) THEN 3
    ELSE 0

\* The expander takes the first rule, in source order, whose pattern matches;
\* 0 when none does ("no rules expected the token ...").
FirstRule(in) ==
    IF Rule1Matches(in) THEN 1
    ELSE IF Rule2Matches(in) THEN 2
    ELSE IF Rule3Matches(in) THEN 3
    ELSE IF Rule4Matches(in) THEN 4
    ELSE 0

Outcomes == {"expanded", "needs_return_type", "self_annotated", "needs_annotation", "no_rule"}

----------------------------------------------------------------------------
(* The three compile_error! messages. *)

\* The message with another wording.
MsgNeedsReturnTypeReworded == "closure needs return type."

MsgNeedsReturnType == "Closure passed to fix_fn needs return type!"

\* concat!("First parameter ", stringify!($self_arg), " may not have type annotation!")
MsgSelfAnnotated(selfArg) ==
    "First parameter " \o selfArg \o " may not have type annotation!"

MsgNeedsAnnotation == "All parameters except first need to have an explicit type annotation!"

----------------------------------------------------------------------------
(* The first rule's transcription. *)

\* What the first rule's pattern binds: $mov, $self_arg, $arg_name*,
\* $arg_type*, $ret_type.
Bindings(in) ==
    [ mov      |-> in.mov,
      self_arg |-> in.params[1].name,
      arg_name |-> [k \in 1..(Len(in.params) - 1) |-> in.params[k + 1].name],
      arg_type |-> [k \in 1..(Len(in.params) - 1) |-> in.params[k + 1].ty],
      ret_type |-> in.ret ]

\* $($arg_name : $arg_type),*
TypedArgs(b) == [k \in 1..Len(b.arg_name) |-> [name |-> b.arg_name[k], ty |-> b.arg_type[k]]]

\* A returned closure that keeps the self-parameter in its parameter list.
ReturnedClosureParamsWithSelf(b) == <<[name |-> b.self_arg, ty |-> "&dyn HideFn"]>> \o TypedArgs(b)

\* move |$($arg_name : $arg_type),*| -> $ret_type
ReturnedClosureParams(b) == TypedArgs(b)

Transcribe(b) ==
    [ \* trait HideFn { fn call(&self, $($arg_name : $arg_type ,)*) -> $ret_type; }
      traitParams   |-> TypedArgs(b),
      \* F: Fn(&dyn HideFn, $($arg_type ,)*) -> $ret_type
      fnBound       |-> <<"&dyn HideFn">> \o b.arg_type,
      \* $($mov)? |$self_arg, $($arg_name : $arg_type ,)*| -> $ret_type
      innerMarker   |-> b.mov,
      innerParams   |-> <<[name |-> b.self_arg, ty |-> NoType]>> \o TypedArgs(b),
      \* let $self_arg = |$($arg_name : $arg_type ),*| $self_arg.call(...)
      adapterName   |-> b.self_arg,
      adapterParams |-> TypedArgs(b),
      closureMarker |-> "move",
      closureParams |-> ReturnedClosureParams(b),
      ret           |-> b.ret_type ]

----------------------------------------------------------------------------
Init ==
    /\ input \in Inputs
    /\ WellFormedInput(input)
    /\ pc = "source"
    /\ outcome = "pending"
    /\ diag = ""
    /\ expansion = <<>>
    /\ env = [x \in OuterVars \cup {"inner"} |-> IF x = "inner" THEN "unbound" ELSE "owned"]
    /\ instances = 0
    /\ stack = <<>>
    /\ callArgs = <<>>
    /\ result = <<>>

Matched(o, d, e) ==
    /\ pc' = "matched"
    /\ outcome' = o
    /\ diag' = d
    /\ expansion' = e
    /\ UNCHANGED <<input, env, instances, stack, callArgs, result>>

\* lines 37-71
ExpandFirstRule ==
    /\ pc = "source"
    /\ FirstRule(input) = 1
    /\ Matched("expanded", "", <<Transcribe(Bindings(input))>>)

\* lines 72-77
RejectNoReturnType ==
    /\ pc = "source"
    /\ FirstRule(input) = 2
    /\ Matched("needs_return_type", MsgNeedsReturnType, <<>>)

\* lines 78-84
RejectSelfAnnotated ==
    /\ pc = "source"
    /\ FirstRule(input) = 3
    /\ Matched("self_annotated", MsgSelfAnnotated(input.params[1].name), <<>>)

\* lines 85-91
RejectUnannotated ==
    /\ pc = "source"
    /\ FirstRule(input) = 4
    /\ Matched("needs_annotation", MsgNeedsAnnotation, <<>>)

\* No rule matches: the expander's own error, none of the three messages.
NoRuleMatches ==
    /\ pc = "source"
    /\ FirstRule(input) = 0
    /\ Matched("no_rule", "", <<>>)

----------------------------------------------------------------------------
(* Evaluating the expanded block (lines 41-71). *)

\* Whether the expansion is a well-typed expression.  The transcribed marker
\* stands right before the inner closure's `|`: only nothing or `move` makes
\* a closure expression there.  The body's names must be bound with the types
\* the body uses them at: "fib" mentions fib and i: u32, "sub" mentions sub,
\* i: u32 and j: u32, "lit" mentions neither; all three evaluate to a u32.
Compiles(in) ==
    /\ in.mov \in {NoToken, "move"}
    /\ in.ret = "u32"
    /\ CASE in.body = "fib" ->
              /\ in.params[1].name = "fib"
              /\ Len(in.params) = 2 /\ in.params[2].ty = "u32"
         [] in.body = "sub" ->
              /\ in.params[1].name = "sub"
              /\ Len(in.params) = 3 /\ in.params[2].ty = "u32" /\ in.params[3].ty = "u32"
         [] OTHER -> in.body = "lit"

\* A closure capturing `names`: by value when it is a `move` closure (a Copy
\* value is copied and the original stays, any other value is moved out of
\* the scope), by shared reference otherwise (the inner closure must be Fn,
\* so its body can neither consume nor mutate what it mentions).
Capture(e, names, byValue) ==
    [x \in DOMAIN e |->
        IF x \notin names THEN e[x]
        ELSE IF ~byValue THEN "borrowed"
        ELSE IF IsCopy(x) THEN e[x]
        ELSE "moved"]

\* #[inline] $($mov)? |$self_arg, ...| : a `move` closure iff the marker is there.
InnerByValue(e) == e.innerMarker = "move"

\* A returned closure whose body would mention what the input's body mentions.
ReturnedClosureUsesBody(in) == {"inner"} \cup in.uses

\* move |...| -> $ret_type { inner.call(...) } mentions `inner` and its own
\* parameters only.
ReturnedClosureUses(in) == {"inner"}

\* The one instance, `inner`.
InnerId == 1

\* let inner = HideFnImpl(<inner closure>); move |args| { inner.call(args) }
Define ==
    /\ pc = "matched"
    /\ outcome = "expanded"
    /\ Compiles(input)
    /\ instances' = instances + 1
    /\ env' = Capture(
                 Capture([env EXCEPT !["inner"] = "owned"], input.uses,
                         InnerByValue(expansion[1])),
                 ReturnedClosureUses(input), expansion[1].closureMarker = "move")
    /\ pc' = "defined"
    /\ UNCHANGED <<input, outcome, diag, expansion, stack, callArgs, result>>

Accessible(x) == env[x] \in {"owned", "borrowed"}

----------------------------------------------------------------------------
(* The bodies. *)

\* if i <= 1 / if j == 0 ... else if i == 0 / (no condition)
BaseCase(b, a) ==
    CASE b = "fib" -> a[1] <= 1
      [] b = "sub" -> a[2] = 0 \/ a[1] = 0
      [] OTHER -> TRUE

\* { i } / { i } or { 0 } / { 7 }
BaseValue(b, a) ==
    CASE b = "fib" -> a[1]
      [] b = "sub" -> IF a[2] = 0 THEN a[1] ELSE 0
      [] OTHER -> 7

\* The self-calls of the recursive branch, in evaluation order:
\* fib(i - 1) + fib(i - 2) / sub(i - 1, j - 1)
SelfCallArgs(b, a) ==
    CASE b = "fib" -> << <<a[1] - 1>>, <<a[1] - 2>> >>
      [] b = "sub" -> << <<a[1] - 1, a[2] - 1>> >>
      [] OTHER -> <<>>

\* The recursive branch's value from the self-calls' results.
Combine(b, a, rs) ==
    CASE b = "fib" -> rs[1] + rs[2]
      [] b = "sub" -> rs[1]
      [] OTHER -> 7

----------------------------------------------------------------------------
(* Calling the returned closure. *)

ArgValues(ty) == IF ty = "u32" THEN 0..MaxArg ELSE BOOLEAN

\* The argument tuples a parameter list admits.
RECURSIVE ArgTuples(_)
ArgTuples(ps) ==
    IF ps = <<>> THEN {<<>>}
    ELSE { <<x>> \o t : x \in ArgValues(ps[1].ty), t \in ArgTuples(Tail(ps)) }

Frame(kind, self, args) ==
    [kind |-> kind, self |-> self, args |-> args, st |-> "enter", k |-> 0, acc |-> <<>>, val |-> <<>>]

Top == stack[Len(stack)]

\* Push frame f, leaving the caller waiting for it.
PushFrom(f) ==
    stack' = Append([stack EXCEPT ![Len(stack)].st = "wait"], f)

\* The returned closure is called with one value per parameter.
Call ==
    /\ pc = "defined"
    /\ \E a \in ArgTuples(expansion[1].closureParams) :
        /\ callArgs' = a
        /\ stack' = <<Frame("closure", 0, a)>>
    /\ result' = <<>>
    /\ pc' = "running"
    /\ UNCHANGED <<input, outcome, diag, expansion, env, instances>>

Running == pc = "running" /\ stack # <<>>

\* A returned closure that hands the arguments on in reverse order.
ClosureForwardFrameReversed(f) ==
    Frame("call", InnerId, [k \in 1..Len(f.args) |-> f.args[Len(f.args) + 1 - k]])

\* inner.call($($arg_name),*)
ClosureForwardFrame(f) == Frame("call", InnerId, f.args)

ClosureForward ==
    /\ Running
    /\ Top.kind = "closure" /\ Top.st = "enter"
    /\ PushFrom(ClosureForwardFrame(Top))
    /\ UNCHANGED <<input, pc, outcome, diag, expansion, env, instances, callArgs, result>>

\* A call method that hands the underlying function another reference.
DelegateFrameOtherSelf(f) == Frame("fn", f.self + 1, f.args)

\* fn call(&self, args) -> R { self.0(self, $($arg_name ,)*) }
DelegateFrame(f) == Frame("fn", f.self, f.args)

HideFnCall ==
    /\ Running
    /\ Top.kind = "call" /\ Top.st = "enter"
    /\ PushFrom(DelegateFrame(Top))
    /\ UNCHANGED <<input, pc, outcome, diag, expansion, env, instances, callArgs, result>>

\* let $self_arg = |args| $self_arg.call(args): the adapter closes over the
\* capability reference the underlying function was handed.
AdapterFrame(f, a) == Frame("adapter", f.self, a)

\* The body calls $self_arg(a): its next self-call.
BodySelfCall ==
    /\ Running
    /\ Top.kind = "fn" /\ Top.st = "enter"
    /\ ~BaseCase(input.body, Top.args)
    /\ Top.k < Len(SelfCallArgs(input.body, Top.args))
    /\ PushFrom(AdapterFrame(Top, SelfCallArgs(input.body, Top.args)[Top.k + 1]))
    /\ UNCHANGED <<input, pc, outcome, diag, expansion, env, instances, callArgs, result>>

\* $self_arg.call($($arg_name ,)*)
AdapterForwardFrame(f) == Frame("call", f.self, f.args)

AdapterForward ==
    /\ Running
    /\ Top.kind = "adapter" /\ Top.st = "enter"
    /\ PushFrom(AdapterForwardFrame(Top))
    /\ UNCHANGED <<input, pc, outcome, diag, expansion, env, instances, callArgs, result>>

\* The body's value: the base case's, or the recursive branch's once every
\* self-call has returned.
BodyValue(b, f) ==
    IF BaseCase(b, f.args) THEN BaseValue(b, f.args) ELSE Combine(b, f.args, f.acc)

BodyReturn ==
    /\ Running
    /\ Top.kind = "fn" /\ Top.st = "enter"
    /\ IF BaseCase(input.body, Top.args) THEN TRUE
       ELSE Top.k = Len(SelfCallArgs(input.body, Top.args))
    /\ stack' = [stack EXCEPT ![Len(stack)].st = "done",
                              ![Len(stack)].val = <<BodyValue(input.body, Top)>>]
    /\ UNCHANGED <<input, pc, outcome, diag, expansion, env, instances, callArgs, result>>

\* The caller's frame once its callee has returned v: the body goes on with
\* the self-call's value, a forwarding frame returns it as its own.
Resume(caller, v) ==
    IF caller.kind = "fn"
    THEN [caller EXCEPT !.st = "enter", !.k = @ + 1, !.acc = Append(@, v)]
    ELSE [caller EXCEPT !.st = "done", !.val = <<v>>]

Return ==
    /\ Running
    /\ Len(stack) >= 2
    /\ Top.st = "done"
    /\ stack' = [SubSeq(stack, 1, Len(stack) - 1)
                    EXCEPT ![Len(stack) - 1] = Resume(stack[Len(stack) - 1], Top.val[1])]
    /\ UNCHANGED <<input, pc, outcome, diag, expansion, env, instances, callArgs, result>>

\* The returned closure's own return.
Finish ==
    /\ Running
    /\ Len(stack) = 1
    /\ Top.st = "done"
    /\ result' = Top.val
    /\ stack' = <<>>
    /\ pc' = "returned"
    /\ UNCHANGED <<input, outcome, diag, expansion, env, instances, callArgs>>

Next ==
    \/ ExpandFirstRule
    \/ RejectNoReturnType
    \/ RejectSelfAnnotated
    \/ RejectUnannotated
    \/ NoRuleMatches
    \/ Define
    \/ Call
    \/ ClosureForward
    \/ HideFnCall
    \/ BodySelfCall
    \/ AdapterForward
    \/ BodyReturn
    \/ Return
    \/ Finish

Spec == Init /\ [][Next]_vars

----------------------------------------------------------------------------
(* Vocabulary of the properties. *)

\* [move] |self_name, p1: T1, ..., pn: Tn| -> R { body }
AcceptedForm(in) ==
    /\ in.mov \in {NoToken, "move"}
    /\ Len(in.params) >= 1
    /\ ~Annotated(in.params[1])
    /\ \A k \in 2..Len(in.params) : Annotated(in.params[k])
    /\ HasRet(in)
    /\ in.body \in BlockBodies

Diagnosed == outcome \in {"needs_return_type", "self_annotated", "needs_annotation"}

MatchingDone == pc # "source"

Evaluated == pc \in {"defined", "running", "returned"}

\* The Fibonacci numbers, computed by iteration: <<F(n), F(n + 1)>>.
RECURSIVE FibPair(_)
FibPair(n) ==
    IF n = 0 THEN <<0, 1>>
    ELSE LET p == FibPair(n - 1) IN <<p[2], p[1] + p[2]>>

FibRef(n) == FibPair(n)[1]

\* The body's value with its parameters bound to a and the self-parameter
\* bound to this very function.
RECURSIVE FixedPoint(_, _)
FixedPoint(b, a) ==
    IF BaseCase(b, a) THEN BaseValue(b, a)
    ELSE Combine(b, a, [k \in 1..Len(SelfCallArgs(b, a)) |-> FixedPoint(b, SelfCallArgs(b, a)[k])])

----------------------------------------------------------------------------
(* The properties. *)

\* C1: for an input of the accepted form with n additional parameters and
\* return type R, the returned closure's parameter list is exactly the n
\* additional parameters, names and types, in their declared order, its
\* return type is R, and it is called with exactly n arguments: the
\* self-parameter is gone, nothing is added, dropped or reordered.
C1_SignatureIsAdditionalParams ==
    (MatchingDone /\ AcceptedForm(input)) =>
        /\ expansion # <<>>
        /\ LET e == expansion[1]
               n == Len(input.params) - 1
           IN /\ Len(e.closureParams) = n
              /\ \A k \in 1..n : e.closureParams[k] = input.params[k + 1]
              /\ \A k \in 1..n : e.closureParams[k].name # input.params[1].name
              /\ e.ret = input.ret
              /\ pc \in {"running", "returned"} => Len(callArgs) = n
              /\ (pc = "returned" /\ e.ret = "u32") => (Len(result) = 1 /\ result[1] \in Nat)

C1_Witness ==
    /\ pc = "returned"
    /\ AcceptedForm(input)
    /\ Len(input.params) = 3
    /\ callArgs = <<5, 2>>

\* C2: a call of the returned closure with arguments a returns the body's
\* value with the parameters bound to a and the self-parameter bound to a
\* callable that behaves as the closure itself, and so does every self-call
\* inside the chain; for the doc test's input that value is the Fibonacci
\* number of the argument, and fib(7) = 13.
C2_FixedPoint ==
    /\ pc = "returned" => result = <<FixedPoint(input.body, callArgs)>>
    /\ \A k \in 1..Len(stack) :
          (stack[k].kind \in {"closure", "adapter"} /\ stack[k].st = "done") =>
              stack[k].val = <<FixedPoint(input.body, stack[k].args)>>
    /\ (pc = "returned" /\ input.body = "fib") => result = <<FibRef(callArgs[1])>>
    /\ (pc = "returned" /\ input.body = "fib" /\ callArgs = <<7>>) => result = <<13>>

C2_Witness ==
    /\ pc = "returned"
    /\ input.body = "fib"
    /\ callArgs = <<7>>
    /\ result = <<13>>

\* C3 (as claimed): every input without a return-type annotation gets the
\* "needs return type" diagnostic and no closure, whatever its marker and
\* its parameter list.
C3_NoReturnTypeAlwaysDiagnosed ==
    (MatchingDone /\ ~HasRet(input)) =>
        /\ outcome = "needs_return_type"
        /\ diag = "Closure passed to fix_fn needs return type!"
        /\ expansion = <<>>

\* C4: an input with a return type, a block body and an annotated
\* self-parameter gets the diagnostic naming that parameter and no closure,
\* whether or not its additional parameters are annotated.
C4_SelfAnnotatedDiagnosed ==
    (MatchingDone /\ HasRet(input) /\ input.body \in BlockBodies
        /\ Len(input.params) >= 1 /\ input.params[1].ty # NoType) =>
        /\ outcome = "self_annotated"
        /\ diag = (IF input.params[1].name = "fib"
                   THEN "First parameter fib may not have type annotation!"
                   ELSE "First parameter sub may not have type annotation!")
        /\ expansion = <<>>

C4_Witness ==
    /\ pc = "matched"
    /\ outcome = "self_annotated"
    /\ Len(input.params) = 3
    /\ input.params[2].ty = NoType
    /\ input.params[3].ty # NoType

\* C5: for an input with a return type, a block body and an unannotated
\* self-parameter, the "need explicit type annotation" diagnostic is produced
\* iff some additional parameter lacks its annotation; the fourth rule's
\* pattern matches the fully annotated inputs too, and the first rule has
\* taken them.
C5_UnannotatedIffDiagnosed ==
    (MatchingDone /\ HasRet(input) /\ input.body \in BlockBodies
        /\ Len(input.params) >= 1 /\ input.params[1].ty = NoType) =>
        LET missing == \E k \in 2..Len(input.params) : input.params[k].ty = NoType
        IN /\ (outcome = "needs_annotation") <=> missing
           /\ (diag = "All parameters except first need to have an explicit type annotation!")
                  <=> missing
           /\ ~missing => (Rule4Matches(input) /\ outcome = "expanded" /\ diag = "")

C5_Witness ==
    /\ pc = "matched"
    /\ outcome = "needs_annotation"
    /\ Len(input.params) = 3
    /\ input.params[2].ty # NoType
    /\ input.params[3].ty = NoType

\* C6 (as claimed): the missing-return-type diagnostic reads
\* "closure needs return type." and the unannotated-parameter diagnostic
\* reads "all parameters except first need explicit type annotation.".
C6_MessagesAsInSpec ==
    /\ outcome = "needs_return_type" => diag = "closure needs return type."
    /\ outcome = "needs_annotation" =>
          diag = "all parameters except first need explicit type annotation."

\* C6 (amended): the three diagnostics read, character for character,
\* "Closure passed to fix_fn needs return type!",
\* "First parameter <name> may not have type annotation!" and
\* "All parameters except first need to have an explicit type annotation!";
\* every other outcome carries no message.
C6_MessagesAsInCode ==
    /\ outcome = "needs_return_type" => diag = "Closure passed to fix_fn needs return type!"
    /\ outcome = "self_annotated" =>
          \E s \in SelfNames :
              /\ s = input.params[1].name
              /\ diag = "First parameter " \o s \o " may not have type annotation!"
    /\ outcome = "needs_annotation" =>
          diag = "All parameters except first need to have an explicit type annotation!"
    /\ outcome \in {"pending", "expanded", "no_rule"} => diag = ""

C6_Witness ==
    /\ pc = "matched"
    /\ outcome = "needs_return_type"
    /\ diag = "Closure passed to fix_fn needs return type!"
    /\ input.params # <<>>

\* C7 (as claimed): every input that is not of the accepted form is rejected
\* by one of the three diagnostics: the first rule takes none of them and
\* none falls through all four rules.
C7_MalformedAlwaysDiagnosed ==
    (MatchingDone /\ ~AcceptedForm(input)) => Diagnosed

\* C8 (as claimed): with the `move` marker every outer value the body uses
\* is moved into the closure and is no longer accessible in the defining
\* scope; without it those values are only referenced and stay accessible.
C8_MoveMovesEverything ==
    Evaluated =>
        /\ input.mov = "move" => \A x \in input.uses : env[x] = "moved" /\ ~Accessible(x)
        /\ input.mov = NoToken => \A x \in input.uses : env[x] = "borrowed" /\ Accessible(x)

\* C8 (amended): with the `move` marker every outer value the body uses
\* whose type is not Copy is moved into the closure and is no longer
\* accessible in the defining scope, while a value of a Copy type is copied
\* and stays accessible; without the marker the values the body uses are only
\* referenced and stay accessible, although the returned closure is always a
\* `move` closure: it moves the instance `inner` and nothing else.  Values
\* the body does not use stay owned by the scope either way.
C8_MoveMovesNonCopy ==
    Evaluated =>
        /\ input.mov = "move" =>
              \A x \in input.uses :
                  IF IsCopy(x) THEN env[x] = "owned" /\ Accessible(x)
                  ELSE env[x] = "moved" /\ ~Accessible(x)
        /\ input.mov = NoToken => \A x \in input.uses : env[x] = "borrowed" /\ Accessible(x)
        /\ \A x \in OuterVars \ input.uses : env[x] = "owned"
        /\ env["inner"] = "moved"
        /\ expansion[1].closureMarker = "move"

C8_Witness ==
    /\ pc = "defined"
    /\ input.mov = "move"
    /\ input.uses = {"v", "n"}
    /\ env["v"] = "moved"
    /\ env["n"] = "owned"

\* C9: every input of the accepted form - with or without `move`, with any
\* number of annotated additional parameters, with or without a trailing
\* comma - is taken by the first rule and gets none of the diagnostics.
C9_AcceptedFormExpands ==
    (MatchingDone /\ AcceptedForm(input)) =>
        /\ outcome = "expanded"
        /\ ~Diagnosed
        /\ diag = ""
        /\ expansion # <<>>

C9_Witness ==
    /\ pc = "matched"
    /\ outcome = "expanded"
    /\ input.mov = "move"
    /\ input.comma
    /\ Len(input.params) = 1

\* C10: in a call chain, every self-call self_name(a1..an) the body makes, at
\* any depth, reaches the underlying function as (c, a1..an): c is the one
\* instance the expansion built, the arguments are the self-call's own, in
\* order, and the self-call itself carries n arguments, without the
\* capability.  No second instance is ever built.
C10_SelfCallsReachTheOneInstance ==
    /\ instances <= 1
    /\ stack # <<>> => instances = 1
    /\ \A k \in 1..Len(stack) :
          LET f == stack[k] IN
          /\ f.kind = "closure" => k = 1
          /\ f.kind = "adapter" =>
                /\ k >= 2 /\ stack[k - 1].kind = "fn"
                /\ f.args = SelfCallArgs(input.body, stack[k - 1].args)[stack[k - 1].k + 1]
                /\ Len(f.args) = Len(input.params) - 1
                /\ f.self = InnerId
          /\ f.kind = "call" =>
                /\ k >= 2 /\ stack[k - 1].kind \in {"closure", "adapter"}
                /\ f.args = stack[k - 1].args
                /\ f.self = InnerId
          /\ f.kind = "fn" =>
                /\ k >= 3 /\ stack[k - 1].kind = "call"
                /\ f.args = stack[k - 2].args
                /\ f.self = InnerId

C10_Witness ==
    /\ pc = "running"
    /\ input.body = "sub"
    /\ Len(stack) = 9
    /\ stack[9].kind = "fn"
    /\ stack[9].self = InnerId
    /\ stack[7].kind = "adapter"
    /\ stack[7].args = <<3, 1>>
    /\ stack[9].args = <<3, 1>>
====
